---- MODULE Spec2Model ----
(***************************************************************************)
(* Constant propagation over SQL predicate lists, after                    *)
(* expression/constant_propagation.go (package expression).                *)
(*                                                                         *)
(* One behaviour of the model is one call of PropagateConstant on one     *)
(* input condition list: solve flattens and indexes, propagateEQ runs its *)
(* rounds, propagateInEQ builds the closure and replicates inequalities,  *)
(* the DNF loop rewrites each OR condition branch by branch.  The same    *)
(* operators, composed, give the whole function PropagateConstant, which  *)
(* the DNF loop calls recursively.                                         *)
(*                                                                         *)
(* Go slices are 0-based and TLA+ sequences 1-based: column id i lives at *)
(* position i + 1 of columns, eqList and transitiveMatrix.                 *)
(***************************************************************************)
EXTENDS Integers, Sequences, FiniteSets, TLC

VARIABLES
    MaxPropagateColsCnt, \* the package variable (default 100), fixed during a call
    conditions,          \* the argument of solve
    s,                   \* the propagateConstantSolver
    visited,             \* propagateEQ's local visited flags
    i,                   \* propagateEQ's loop counter
    pc,                  \* position inside solve
    ret                  \* the list solve returns

vars == <<MaxPropagateColsCnt, conditions, s, visited, i, pc, ret>>

----------------------------------------------------------------------------
(* Bounds of the model *)

\* MaxPropagateColsCnt is MaxCap - 1 or MaxCap: with the three columns of the
\* inputs, a cap some inputs exceed and a cap some inputs meet exactly
MaxCap == 3
\* the input list holds 1..MaxConds conditions
MaxConds == 3

----------------------------------------------------------------------------
(* Expressions: Column, Constant, ScalarFunction *)

Col(n) == [kind |-> "col", name |-> n, val |-> 0, isNull |-> FALSE, args |-> <<>>]
Con(v) == [kind |-> "con", name |-> "", val |-> v, isNull |-> FALSE, args |-> <<>>]
NullCon == [kind |-> "con", name |-> "", val |-> 0, isNull |-> TRUE, args |-> <<>>]
Fn(op, as) == [kind |-> "fn", name |-> op, val |-> 0, isNull |-> FALSE, args |-> as]
\* a nil *Column / *Constant
Nil == [kind |-> "nil", name |-> "", val |-> 0, isNull |-> FALSE, args |-> <<>>]
\* &Constant{Value: types.NewDatum(false), RetType: TypeTiny}
FalseLit == Con(0)

eqFuncNameMap == {"eq"}
inEqFuncNameMap == {"lt", "gt", "le", "ge", "ne"}

IsColumn(e) == e.kind = "col"
IsConstant(e) == e.kind = "con"
IsScalarFunction(e) == e.kind = "fn"

\* Go evaluates an expression once and passes or names its value: with S
\* written {F(x) : x \in {e}}, The(S) is F applied to the value of e
The(S) == CHOOSE r \in S : TRUE

RECURSIVE Concat(_)
Concat(seqs) ==
    IF Len(seqs) = 0 THEN <<>> ELSE Head(seqs) \o The({Concat(x) : x \in {Tail(seqs)}})

RECURSIVE SplitItems(_, _)
SplitItems(e, op) ==
    IF IsScalarFunction(e) /\ e.name = op
    THEN The({Concat(x) : x \in {[k \in 1..Len(e.args) |-> SplitItems(e.args[k], op)]}})
    ELSE <<e>>

SplitCNFItems(e) == SplitItems(e, "and")
SplitDNFItems(e) == SplitItems(e, "or")

ComposeCondition(conds, op) ==
    IF Len(conds) = 1 THEN conds[1] ELSE Fn(op, conds)

ComposeCNFCondition(conds) == ComposeCondition(conds, "and")
ComposeDNFCondition(conds) == ComposeCondition(conds, "or")

RECURSIVE ExtractColumns(_)
ExtractColumns(e) ==
    IF IsColumn(e) THEN <<e.name>>
    ELSE IF IsScalarFunction(e)
    THEN The({Concat(x) : x \in {[k \in 1..Len(e.args) |-> ExtractColumns(e.args[k])]}})
    ELSE <<>>

\* Schema.GetIndex: the position of the column in the schema, 0 when absent
GetIndex(schema, n) ==
    IF \E k \in 1..Len(schema) : schema[k] = n
    THEN CHOOSE k \in 1..Len(schema) :
            schema[k] = n /\ \A j \in 1..(k - 1) : schema[j] # n
    ELSE 0

RECURSIVE ColumnSubstitute(_, _, _)
ColumnSubstitute(expr, schema, newExprs) ==
    IF IsColumn(expr)
    THEN IF GetIndex(schema, expr.name) = 0 THEN expr
         ELSE newExprs[GetIndex(schema, expr.name)]
    ELSE IF IsScalarFunction(expr)
    THEN Fn(expr.name,
            [k \in 1..Len(expr.args) |->
                ColumnSubstitute(expr.args[k], schema, newExprs)])
    ELSE expr

NewFunction(funcName, l, r) == Fn(funcName, <<l, r>>)

\* Constant.Equal
ConstantEqual(x, y) == x.isNull = y.isNull /\ x.val = y.val

----------------------------------------------------------------------------
(* The solver *)

NewSolver ==
    [colMapper |-> <<>>, transitiveMatrix |-> <<>>, eqList |-> <<>>,
     columns |-> <<>>, conditions |-> <<>>, foreverFalse |-> FALSE]

getColID(sv, col) ==
    IF col \in DOMAIN sv.colMapper THEN sv.colMapper[col] ELSE 0

\* insertCol without the test for a key already present
insertCol_Always(sv, col) ==
    [sv EXCEPT !.colMapper = (col :> Cardinality(DOMAIN sv.colMapper)) @@ @,
               !.columns = Append(@, col)]

insertCol(sv, col) ==
    IF col \in DOMAIN sv.colMapper THEN sv
    ELSE [sv EXCEPT !.colMapper = (col :> Cardinality(DOMAIN sv.colMapper)) @@ @,
                    !.columns = Append(@, col)]

validPropagateCond(cond, funNameMap) ==
    IF IsScalarFunction(cond) /\ cond.name \in funNameMap /\ Len(cond.args) = 2
    THEN IF IsColumn(cond.args[1]) /\ IsConstant(cond.args[2])
         THEN [col |-> cond.args[1], con |-> cond.args[2]]
         ELSE IF IsColumn(cond.args[2]) /\ IsConstant(cond.args[1])
         THEN [col |-> cond.args[2], con |-> cond.args[1]]
         ELSE [col |-> Nil, con |-> Nil]
    ELSE [col |-> Nil, con |-> Nil]

\* tryToUpdateEQList keeping the first binding when a second constant differs
tryToUpdateEQList_NoConflict(sv, col, con) ==
    IF con.isNull
    THEN [s |-> [sv EXCEPT !.foreverFalse = TRUE, !.conditions = <<FalseLit>>],
          ok |-> FALSE]
    ELSE LET id == IF col.name \in DOMAIN sv.colMapper THEN sv.colMapper[col.name] ELSE 0
         IN  IF sv.eqList[id + 1] # Nil THEN [s |-> sv, ok |-> FALSE]
             ELSE [s |-> [sv EXCEPT !.eqList[id + 1] = con], ok |-> TRUE]

\* tryToUpdateEQList without the NULL test
tryToUpdateEQList_NoNull(sv, col, con) ==
    LET id == IF col.name \in DOMAIN sv.colMapper THEN sv.colMapper[col.name] ELSE 0
        oldCon == sv.eqList[id + 1]
    IN  IF oldCon # Nil
        THEN IF ~(oldCon.isNull = con.isNull /\ oldCon.val = con.val)
             THEN [s |-> [sv EXCEPT !.foreverFalse = TRUE,
                                    !.conditions = <<FalseLit>>],
                   ok |-> FALSE]
             ELSE [s |-> sv, ok |-> FALSE]
        ELSE [s |-> [sv EXCEPT !.eqList[id + 1] = con], ok |-> TRUE]

\* returns the solver and the boolean result
tryToUpdateEQList(sv, col, con) ==
    IF con.isNull
    THEN [s |-> [sv EXCEPT !.foreverFalse = TRUE, !.conditions = <<FalseLit>>],
          ok |-> FALSE]
    ELSE LET id == getColID(sv, col.name)
             oldCon == sv.eqList[id + 1]
         IN  IF oldCon # Nil
             THEN IF ~ConstantEqual(oldCon, con)
                  THEN [s |-> [sv EXCEPT !.foreverFalse = TRUE,
                                         !.conditions = <<FalseLit>>],
                        ok |-> FALSE]
                  ELSE [s |-> sv, ok |-> FALSE]
             ELSE [s |-> [sv EXCEPT !.eqList[id + 1] = con], ok |-> TRUE]

\* the scan returning after the first binding it records
RECURSIVE pickScan_FirstOnly(_, _, _, _, _)
pickScan_FirstOnly(sv, conds, vis, retMapper, k) ==
    IF k > Len(conds)
    THEN [s |-> sv, visited |-> vis, retMapper |-> retMapper]
    ELSE IF vis[k] THEN pickScan_FirstOnly(sv, conds, vis, retMapper, k + 1)
    ELSE LET p == validPropagateCond(conds[k], eqFuncNameMap)
         IN  IF p.col = Nil THEN pickScan_FirstOnly(sv, conds, vis, retMapper, k + 1)
             ELSE LET vis2 == [vis EXCEPT ![k] = TRUE]
                      u == tryToUpdateEQList(sv, p.col, p.con)
                  IN  IF u.ok
                      THEN [s |-> u.s, visited |-> vis2,
                            retMapper |-> (getColID(u.s, p.col.name) :> p.con)
                                          @@ retMapper]
                      ELSE IF u.s.foreverFalse
                      THEN [s |-> u.s, visited |-> vis2, retMapper |-> retMapper]
                      ELSE pickScan_FirstOnly(u.s, conds, vis2, retMapper, k + 1)

\* the scan of pickNewEQConds from position k on, over the list conds the
\* range statement captured; retMapper maps column ids to constants
RECURSIVE pickScan(_, _, _, _, _)
pickScan(sv, conds, vis, retMapper, k) ==
    IF k > Len(conds)
    THEN [s |-> sv, visited |-> vis, retMapper |-> retMapper]
    ELSE IF vis[k] THEN pickScan(sv, conds, vis, retMapper, k + 1)
    ELSE LET p == validPropagateCond(conds[k], eqFuncNameMap)
         IN  IF p.col = Nil THEN pickScan(sv, conds, vis, retMapper, k + 1)
             ELSE LET vis2 == [vis EXCEPT ![k] = TRUE]
                  IN  The({IF u.ok
                            THEN pickScan(u.s, conds, vis2,
                                     (getColID(u.s, p.col.name) :> p.con) @@ retMapper,
                                     k + 1)
                            ELSE IF u.s.foreverFalse
                            THEN [s |-> u.s, visited |-> vis2, retMapper |-> retMapper]
                            ELSE pickScan(u.s, conds, vis2, retMapper, k + 1) :
                           u \in {tryToUpdateEQList(sv, p.col, p.con)}})

pickNewEQConds(sv, vis) == pickScan(sv, sv.conditions, vis, <<>>, 1)

\* the ids of a mapper in increasing order (Go's map order does not change
\* what the substitution yields: the columns of a batch are distinct)
RECURSIVE SortedIds(_)
SortedIds(ids) ==
    IF ids = {} THEN <<>>
    ELSE LET m == CHOOSE x \in ids : \A y \in ids : x <= y
         IN  <<m>> \o SortedIds(ids \ {m})

\* the loop body substituting into the visited conditions as well
propagateEQRound_SubstAll(sv, vis) ==
    LET p == pickNewEQConds(sv, vis)
        mapper == p.retMapper
    IN  IF p.s.foreverFalse \/ DOMAIN mapper = {}
        THEN [s |-> p.s, visited |-> p.visited, return |-> TRUE]
        ELSE LET ids == SortedIds(DOMAIN mapper)
                 cols == [k \in 1..Len(ids) |-> p.s.columns[ids[k] + 1]]
                 cons == [k \in 1..Len(ids) |-> mapper[ids[k]]]
             IN  [s |-> [p.s EXCEPT !.conditions =
                            [k \in 1..Len(p.s.conditions) |->
                                ColumnSubstitute(p.s.conditions[k], cols, cons)]],
                  visited |-> p.visited, return |-> FALSE]

\* the loop body returning on an empty batch only, not on forever-false
propagateEQRound_NoStop(sv, vis) ==
    LET p == pickNewEQConds(sv, vis)
        mapper == p.retMapper
    IN  IF DOMAIN mapper = {}
        THEN [s |-> p.s, visited |-> p.visited, return |-> TRUE]
        ELSE LET ids == SortedIds(DOMAIN mapper)
                 cols == [k \in 1..Len(ids) |-> p.s.columns[ids[k] + 1]]
                 cons == [k \in 1..Len(ids) |-> mapper[ids[k]]]
             IN  [s |-> [p.s EXCEPT !.conditions =
                            [k \in 1..Len(p.s.conditions) |->
                                IF p.visited[k] THEN p.s.conditions[k]
                                ELSE ColumnSubstitute(p.s.conditions[k], cols, cons)]],
                  visited |-> p.visited, return |-> FALSE]

\* one iteration of propagateEQ's loop: the solver, the visited flags, and
\* whether the loop returns
propagateEQRound(sv, vis) ==
    The({IF p.s.foreverFalse \/ DOMAIN p.retMapper = {}
         THEN [s |-> p.s, visited |-> p.visited, return |-> TRUE]
         ELSE The({[s |-> [p.s EXCEPT !.conditions =
                            [k \in 1..Len(p.s.conditions) |->
                                IF p.visited[k] THEN p.s.conditions[k]
                                ELSE ColumnSubstitute(p.s.conditions[k], cols, cons)]],
                    visited |-> p.visited, return |-> FALSE] :
                   cols \in {[k \in 1..Len(ids) |-> p.s.columns[ids[k] + 1]] :
                             ids \in {SortedIds(DOMAIN p.retMapper)}},
                   cons \in {[k \in 1..Len(ids) |-> p.retMapper[ids[k]]] :
                             ids \in {SortedIds(DOMAIN p.retMapper)}}}) :
         p \in {pickNewEQConds(sv, vis)}})

\* the loop condition with one round less
loopCond_OneLess(n) == n < MaxPropagateColsCnt - 1

\* line 102: i < MaxPropagateColsCnt
loopCond(n) == n < MaxPropagateColsCnt

\* lines 100-101
propagateEQEnter(sv) ==
    [sv EXCEPT !.eqList = [k \in 1..Len(sv.columns) |-> Nil]]

RECURSIVE propagateEQLoop(_, _, _)
propagateEQLoop(sv, vis, n) ==
    IF ~loopCond(n) THEN sv
    ELSE The({IF r.return THEN r.s ELSE propagateEQLoop(r.s, r.visited, n + 1) :
              r \in {propagateEQRound(sv, vis)}})

propagateEQ(sv) ==
    The({propagateEQLoop(s0, vis, 0) :
         s0 \in {propagateEQEnter(sv)},
         vis \in {[k \in 1..Len(sv.conditions) |-> FALSE]}})

\* the matrix scan setting one entry per equality, not the symmetric pair
RECURSIVE buildMatrix_OneWay(_, _, _)
buildMatrix_OneWay(sv, m, k) ==
    IF k > Len(sv.conditions) THEN m
    ELSE LET fun == sv.conditions[k]
         IN  IF IsScalarFunction(fun) /\ fun.name = "eq" /\ Len(fun.args) = 2
                /\ IsColumn(fun.args[1]) /\ IsColumn(fun.args[2])
             THEN LET lID == getColID(sv, fun.args[1].name)
                      rID == getColID(sv, fun.args[2].name)
                  IN  buildMatrix_OneWay(sv, [m EXCEPT ![lID + 1][rID + 1] = TRUE],
                                         k + 1)
             ELSE buildMatrix_OneWay(sv, m, k + 1)

\* lines 52-67: the direct-equality matrix, scanning conditions from k on
RECURSIVE buildMatrix(_, _, _)
buildMatrix(sv, m, k) ==
    IF k > Len(sv.conditions) THEN m
    ELSE LET fun == sv.conditions[k]
         IN  IF IsScalarFunction(fun) /\ fun.name = "eq" /\ Len(fun.args) = 2
                /\ IsColumn(fun.args[1]) /\ IsColumn(fun.args[2])
             THEN LET lID == getColID(sv, fun.args[1].name)
                      rID == getColID(sv, fun.args[2].name)
                      m1 == [m EXCEPT ![lID + 1][rID + 1] = TRUE]
                  IN  The({buildMatrix(sv, m2, k + 1) :
                           m2 \in {[m1 EXCEPT ![rID + 1][lID + 1] = TRUE]}})
             ELSE buildMatrix(sv, m, k + 1)

\* lines 72-76: the j loop, from b on, for one k and one i
RECURSIVE loopJ(_, _, _, _, _)
loopJ(m, colLen, k, a, b) ==
    IF b >= colLen THEN m
    ELSE IF ~m[a + 1][b + 1]
    THEN The({loopJ(m2, colLen, k, a, b + 1) :
              m2 \in {[m EXCEPT ![a + 1][b + 1] = m[a + 1][k + 1] /\ m[k + 1][b + 1]]}})
    ELSE loopJ(m, colLen, k, a, b + 1)

\* lines 71-77: the i loop, from a on, for one k
RECURSIVE loopI(_, _, _, _)
loopI(m, colLen, k, a) ==
    IF a >= colLen THEN m
    ELSE The({loopI(m2, colLen, k, a + 1) : m2 \in {loopJ(m, colLen, k, a, 0)}})

\* lines 70-78: the in-place (k, i, j) loops, from k on
RECURSIVE floydWarshall(_, _, _)
floydWarshall(m, colLen, k) ==
    IF k >= colLen THEN m
    ELSE The({floydWarshall(m2, colLen, k + 1) : m2 \in {loopI(m, colLen, k, 0)}})

\* closure without the relaxation loops: direct equalities only
closure_Direct(sv) ==
    LET n == Len(sv.columns)
        empty == [a \in 1..n |-> [b \in 1..n |-> FALSE]]
    IN  [sv EXCEPT !.transitiveMatrix = buildMatrix(sv, empty, 1)]

\* lines 52-78
closure(sv) ==
    LET n == Len(sv.columns)
        empty == [a \in 1..n |-> [b \in 1..n |-> FALSE]]
    IN  [sv EXCEPT !.transitiveMatrix =
            The({floydWarshall(m, Cardinality(DOMAIN sv.colMapper), 0) :
                 m \in {buildMatrix(sv, empty, 1)}})]

\* lines 85-90: the conditions one source condition yields, for to = t, t+1, ...
RECURSIVE replicas(_, _, _, _, _)
replicas(sv, funcName, id, con, t) ==
    IF t >= Len(sv.transitiveMatrix[id + 1]) THEN <<>>
    ELSE (IF t # id /\ sv.transitiveMatrix[id + 1][t + 1]
          THEN <<NewFunction(funcName, Col(sv.columns[t + 1]), con)>>
          ELSE <<>>)
         \o replicas(sv, funcName, id, con, t + 1)

\* the replication scan putting each replica in front of the list: the
\* source of position k has moved to the end of the unscanned part
RECURSIVE replicate_Prepend(_, _, _)
replicate_Prepend(sv, condsLen, k) ==
    IF k > condsLen THEN sv
    ELSE LET cond == sv.conditions[Len(sv.conditions) - condsLen + k]
             p == validPropagateCond(cond, inEqFuncNameMap)
         IN  IF p.col = Nil THEN replicate_Prepend(sv, condsLen, k + 1)
             ELSE replicate_Prepend(
                    [sv EXCEPT !.conditions =
                        replicas(sv, cond.name, getColID(sv, p.col.name), p.con, 0)
                        \o @],
                    condsLen, k + 1)

\* the replication scan going one position past the snapshot length, onto
\* the first condition it appended
RECURSIVE replicate_OneMore(_, _, _)
replicate_OneMore(sv, condsLen, k) ==
    IF k > condsLen + 1 \/ k > Len(sv.conditions) THEN sv
    ELSE LET cond == sv.conditions[k]
             p == validPropagateCond(cond, inEqFuncNameMap)
         IN  IF p.col = Nil THEN replicate_OneMore(sv, condsLen, k + 1)
             ELSE replicate_OneMore(
                    [sv EXCEPT !.conditions = @ \o
                        replicas(sv, cond.name, getColID(sv, p.col.name), p.con, 0)],
                    condsLen, k + 1)

\* lines 79-92: the replication scan over positions k..condsLen
RECURSIVE replicate(_, _, _)
replicate(sv, condsLen, k) ==
    IF k > condsLen THEN sv
    ELSE LET cond == sv.conditions[k]
             p == validPropagateCond(cond, inEqFuncNameMap)
         IN  IF p.col = Nil THEN replicate(sv, condsLen, k + 1)
             ELSE The({replicate(s2, condsLen, k + 1) :
                       s2 \in {[sv EXCEPT !.conditions = @ \o
                        replicas(sv, cond.name, getColID(sv, p.col.name), p.con, 0)]}})

propagateInEQ(sv) ==
    The({replicate(c, Len(c.conditions), 1) : c \in {closure(sv)}})

\* lines 189-196
RECURSIVE insertCols(_, _)
insertCols(sv, cols) ==
    IF Len(cols) = 0 THEN sv
    ELSE The({insertCols(s2, rest) :
              s2 \in {insertCol(sv, Head(cols))}, rest \in {Tail(cols)}})

\* solve indexing the columns of its first condition only
solveCollect_HeadOnly(sv, conds) ==
    insertCols(
        [sv EXCEPT !.conditions =
            @ \o Concat([k \in 1..Len(conds) |-> SplitCNFItems(conds[k])])],
        ExtractColumns(conds[1]))

\* solve flattening the OR conditions as it flattens the AND conditions
solveCollect_SplitOr(sv, conds) ==
    insertCols(
        [sv EXCEPT !.conditions =
            @ \o Concat([k \in 1..Len(conds) |->
                    Concat([j \in 1..Len(SplitCNFItems(conds[k])) |->
                        SplitDNFItems(SplitCNFItems(conds[k])[j])])])],
        Concat([k \in 1..Len(conds) |-> ExtractColumns(conds[k])]))

\* lines 189-196: flatten the conditions, index their columns
solveCollect(sv, conds) ==
    The({insertCols(s0, cols) :
         s0 \in {[sv EXCEPT !.conditions =
                    @ \o Concat([k \in 1..Len(conds) |-> SplitCNFItems(conds[k])])]},
         cols \in {Concat([k \in 1..Len(conds) |-> ExtractColumns(conds[k])])}})

RECURSIVE PropagateConstant(_)

\* the DNF loop handing all the disjuncts to one call
dnfRewrite_Joint(cond) ==
    IF IsScalarFunction(cond) /\ cond.name = "or"
    THEN ComposeDNFCondition(PropagateConstant(SplitDNFItems(cond)))
    ELSE cond

\* lines 204-210: what the DNF loop stores at the place of one condition
dnfRewrite(cond) ==
    IF IsScalarFunction(cond) /\ cond.name = "or"
    THEN The({ComposeDNFCondition(items) :
              items \in {[j \in 1..Len(dnfItems) |->
                            The({ComposeCNFCondition(r) :
                                 r \in {PropagateConstant(<<dnfItems[j]>>)}})] :
                         dnfItems \in {SplitDNFItems(cond)}}})
    ELSE cond

\* lines 203-211
solveDNF(sv) ==
    [sv EXCEPT !.conditions =
        [k \in 1..Len(sv.conditions) |-> dnfRewrite(sv.conditions[k])]]

\* the cap test with >= for >
overCap_GE(sv) == Len(sv.columns) >= MaxPropagateColsCnt

\* line 197
overCap(sv) == Len(sv.columns) > MaxPropagateColsCnt

\* lines 188-213 and 230-235
PropagateConstant(conds) ==
    The({IF overCap(s0) THEN conds
         ELSE The({solveDNF(s2) :
                   s2 \in {propagateInEQ(s1) : s1 \in {propagateEQ(s0)}}}).conditions :
         s0 \in {solveCollect(NewSolver, conds)}})

----------------------------------------------------------------------------
(* The inputs *)

Columns == {"a", "b", "c"}
A == Col("a")
B == Col("b")
C == Col("c")

And(x, y) == Fn("and", <<x, y>>)
Or(x, y) == Fn("or", <<x, y>>)

\* column = constant and constant = column, NULL included
EqConAtoms ==
    {Fn("eq", <<A, Con(1)>>), Fn("eq", <<Con(2), A>>),
     Fn("eq", <<B, NullCon>>), Fn("eq", <<NullCon, A>>)}
\* column = column
EqColAtoms ==
    {Fn("eq", <<A, B>>), Fn("eq", <<B, C>>)}
\* column op constant and constant op column
InEqAtoms ==
    {Fn("lt", <<C, Con(2)>>), Fn("le", <<Con(1), A>>), Fn("ne", <<B, Con(1)>>)}
\* a column inside an arithmetic term
ArithAtoms ==
    {Fn("eq", <<Fn("plus", <<A, Con(1)>>), C>>)}
Atoms == EqConAtoms \cup EqColAtoms \cup InEqAtoms \cup ArithAtoms

\* the branches of the OR conditions: single conditions and conjunctions
Branches ==
    {Fn("eq", <<A, Con(1)>>),
     And(Fn("eq", <<Con(2), A>>), Fn("eq", <<NullCon, B>>)),
     And(Fn("eq", <<A, Con(1)>>), Fn("eq", <<A, B>>)),
     And(Fn("eq", <<A, B>>), Fn("ne", <<B, Con(1)>>))}
OrConds ==
    {Or(x, y) : x \in Branches, y \in Branches}
    \cup {Or(Or(Fn("eq", <<A, Con(1)>>), Fn("lt", <<C, Con(2)>>)),
             Fn("eq", <<Con(2), A>>)),
          Or(And(Or(Fn("eq", <<A, Con(1)>>), Fn("eq", <<A, B>>)),
                 Fn("eq", <<Con(1), B>>)),
             Fn("eq", <<Con(2), A>>))}
\* conjunctions given as one input condition
AndConds ==
    {And(Fn("eq", <<A, Con(1)>>), Fn("eq", <<Con(2), A>>)),
     And(Fn("eq", <<A, B>>), And(Fn("le", <<Con(1), A>>), Fn("eq", <<B, C>>)))}
Composites == OrConds \cup AndConds

\* lists of atoms, and shorter lists holding one composite condition
AtomLists(n) == UNION {[1..k -> Atoms] : k \in 0..n}
Insert(l, k, e) == SubSeq(l, 1, k) \o <<e>> \o SubSeq(l, k + 1, Len(l))
Inputs ==
    (AtomLists(MaxConds) \ {<<>>})
    \cup {Insert(l, k, e) : <<l, k, e>> \in
            {t \in AtomLists(MaxConds - 2) \X (0..(MaxConds - 2)) \X Composites :
                t[2] <= Len(t[1])}}

----------------------------------------------------------------------------
(* One call of PropagateConstant, step by step *)

Init ==
    /\ MaxPropagateColsCnt \in (MaxCap - 1)..MaxCap
    /\ conditions \in Inputs
    /\ s = NewSolver
    /\ visited = <<>>
    /\ i = 0
    /\ pc = "solve"
    /\ ret = <<>>

\* lines 189-200
Solve ==
    /\ pc = "solve"
    /\ \E s0 \in {solveCollect(s, conditions)} :
           /\ s' = s0
           /\ IF overCap(s0)
              THEN pc' = "done" /\ ret' = conditions
              ELSE pc' = "propagateEQ" /\ ret' = ret
    /\ UNCHANGED <<MaxPropagateColsCnt, conditions, visited, i>>

\* lines 100-101
PropagateEQEnter ==
    /\ pc = "propagateEQ"
    /\ s' = propagateEQEnter(s)
    /\ visited' = [k \in 1..Len(s.conditions) |-> FALSE]
    /\ i' = 0
    /\ pc' = "eqLoop"
    /\ UNCHANGED <<MaxPropagateColsCnt, conditions, ret>>

\* an iteration that neither counts nor returns
PropagateEQRound_Spin ==
    /\ pc = "eqLoop"
    /\ loopCond(i)
    /\ LET r == propagateEQRound(s, visited)
       IN  /\ s' = r.s
           /\ visited' = r.visited
           /\ pc' = "eqLoop" /\ i' = i
    /\ UNCHANGED <<MaxPropagateColsCnt, conditions, ret>>

\* lines 102-118: one iteration of the loop
PropagateEQRound ==
    /\ pc = "eqLoop"
    /\ loopCond(i)
    /\ \E r \in {propagateEQRound(s, visited)} :
           /\ s' = r.s
           /\ visited' = r.visited
           /\ IF r.return
              THEN pc' = "propagateInEQ" /\ i' = i
              ELSE pc' = "eqLoop" /\ i' = i + 1
    /\ UNCHANGED <<MaxPropagateColsCnt, conditions, ret>>

\* line 102: the loop counter reached the cap
PropagateEQExit ==
    /\ pc = "eqLoop"
    /\ ~loopCond(i)
    /\ pc' = "propagateInEQ"
    /\ UNCHANGED <<MaxPropagateColsCnt, conditions, s, visited, i, ret>>

\* lines 51-93
PropagateInEQ ==
    /\ pc = "propagateInEQ"
    /\ s' = propagateInEQ(s)
    /\ pc' = "dnf"
    /\ UNCHANGED <<MaxPropagateColsCnt, conditions, visited, i, ret>>

\* lines 203-212
SolveDNF ==
    /\ pc = "dnf"
    /\ s' = solveDNF(s)
    /\ ret' = s'.conditions
    /\ pc' = "done"
    /\ UNCHANGED <<MaxPropagateColsCnt, conditions, visited, i>>

Next ==
    \/ Solve
    \/ PropagateEQEnter
    \/ PropagateEQRound
    \/ PropagateEQExit
    \/ PropagateInEQ
    \/ SolveDNF

Spec == Init /\ [][Next]_vars

\* the call runs on: solve is synchronous, single-threaded code with no
\* blocking operation, so a step that can be taken is taken
FairSpec == Init /\ [][Next]_vars /\ WF_vars(Next)

----------------------------------------------------------------------------
(* SQL three-valued evaluation of an expression under a valuation of the
   columns; a value is NULL or an integer *)

SqlNull == [null |-> TRUE, val |-> 0]
SqlInt(n) == [null |-> FALSE, val |-> n]
SqlBool(b) == SqlInt(IF b THEN 1 ELSE 0)
IsTrue(x) == ~x.null /\ x.val # 0
IsFalse(x) == ~x.null /\ x.val = 0

Compare(op, x, y) ==
    IF x.null \/ y.null THEN SqlNull
    ELSE SqlBool(CASE op = "eq" -> x.val = y.val
                   [] op = "ne" -> x.val # y.val
                   [] op = "lt" -> x.val < y.val
                   [] op = "le" -> x.val <= y.val
                   [] op = "gt" -> x.val > y.val
                   [] op = "ge" -> x.val >= y.val)

RECURSIVE EvalExpr(_, _)
EvalExpr(e, v) ==
    IF IsColumn(e) THEN v[e.name]
    ELSE IF IsConstant(e) THEN (IF e.isNull THEN SqlNull ELSE SqlInt(e.val))
    ELSE LET xs == [k \in 1..Len(e.args) |-> EvalExpr(e.args[k], v)]
         IN  CASE e.name = "and" ->
                    IF \E k \in 1..Len(xs) : IsFalse(xs[k]) THEN SqlBool(FALSE)
                    ELSE IF \A k \in 1..Len(xs) : IsTrue(xs[k]) THEN SqlBool(TRUE)
                    ELSE SqlNull
               [] e.name = "or" ->
                    IF \E k \in 1..Len(xs) : IsTrue(xs[k]) THEN SqlBool(TRUE)
                    ELSE IF \A k \in 1..Len(xs) : IsFalse(xs[k]) THEN SqlBool(FALSE)
                    ELSE SqlNull
               [] e.name = "plus" ->
                    IF xs[1].null \/ xs[2].null THEN SqlNull
                    ELSE SqlInt(xs[1].val + xs[2].val)
               [] OTHER -> Compare(e.name, xs[1], xs[2])

\* the implicit conjunction of a condition list holds under v
Satisfies(v, conds) == \A k \in 1..Len(conds) : IsTrue(EvalExpr(conds[k], v))

SqlValues == {SqlNull} \cup {SqlInt(n) : n \in 0..3}
Valuations == [Columns -> SqlValues]

\* the distinct columns an input list references
ColumnsOf(conds) ==
    LET cols == Concat([k \in 1..Len(conds) |-> ExtractColumns(conds[k])])
    IN  {cols[k] : k \in 1..Len(cols)}
WithinCap == Cardinality(ColumnsOf(conditions)) <= MaxPropagateColsCnt

----------------------------------------------------------------------------
(* Claims *)

\* C1 (soundness): at or below the cap, under every valuation of the columns
\* (NULL included, three-valued comparison) the returned list is satisfied
\* exactly when the input list is.
C1_Soundness ==
    (pc = "done" /\ WithinCap) =>
        \A v \in Valuations : Satisfies(v, ret) <=> Satisfies(v, conditions)

\* C2 (idempotence): at or below the cap, PropagateConstant run on the list a
\* first run returned gives that list back, with no condition added.
C2_Idempotent ==
    (pc = "done" /\ WithinCap) => PropagateConstant(ret) = ret

\* the flattened top-level conjuncts of a list, and the elements of a list
Flat(conds) == Concat([k \in 1..Len(conds) |-> SplitCNFItems(conds[k])])
Range(l) == {l[k] : k \in 1..Len(l)}

\* e is column = constant or constant = column
IsEqFact(e) ==
    /\ e.kind = "fn" /\ e.name = "eq"
    /\ \/ e.args[1].kind = "col" /\ e.args[2].kind = "con"
       \/ e.args[1].kind = "con" /\ e.args[2].kind = "col"
FactCol(e) == IF e.args[1].kind = "col" THEN e.args[1].name ELSE e.args[2].name
FactCon(e) == IF e.args[1].kind = "col" THEN e.args[2] ELSE e.args[1]

\* two conjuncts bind one column to two different non-NULL constants
HasConflict(f) ==
    \E j \in 1..Len(f), k \in 1..Len(f) :
        /\ IsEqFact(f[j]) /\ IsEqFact(f[k])
        /\ FactCol(f[j]) = FactCol(f[k])
        /\ ~FactCon(f[j]).isNull /\ ~FactCon(f[k]).isNull
        /\ FactCon(f[j]).val # FactCon(f[k]).val

\* a conjunct equates a column with the NULL constant
HasNullFact(f) ==
    \E k \in 1..Len(f) : IsEqFact(f[k]) /\ FactCon(f[k]).isNull

\* C3 (contradiction collapse): at or below the cap, an input whose flattened
\* conjuncts bind one column to two different non-NULL constants returns
\* exactly the one literal false.
C3_ContradictionCollapse ==
    (pc = "done" /\ WithinCap /\ HasConflict(Flat(conditions))) =>
        ret = <<FalseLit>>

\* the conflicting pair is split by another conjunct and nothing is NULL
C3_Witness ==
    /\ pc = "done" /\ WithinCap /\ ret = <<FalseLit>>
    /\ LET f == Flat(conditions)
       IN  /\ Len(f) = 3 /\ ~HasNullFact(f)
           /\ HasConflict(<<f[1], f[3]>>) /\ ~IsEqFact(f[2])

\* C4 (NULL collapse): at or below the cap, an input with a flattened conjunct
\* column = NULL (either order) returns exactly the one literal false.
C4_NullCollapse ==
    (pc = "done" /\ WithinCap /\ HasNullFact(Flat(conditions))) =>
        ret = <<FalseLit>>

\* the NULL equality comes last, on a column an earlier conjunct bound
C4_Witness ==
    /\ pc = "done" /\ WithinCap /\ ret = <<FalseLit>>
    /\ LET f == Flat(conditions)
       IN  /\ Len(f) = 3 /\ ~HasConflict(f)
           /\ IsEqFact(f[1]) /\ ~FactCon(f[1]).isNull
           /\ IsEqFact(f[3]) /\ FactCon(f[3]).isNull
           /\ FactCol(f[1]) = FactCol(f[3])

\* C5 (cap fallback): above the cap solve returns its argument, element for
\* element, and nothing was propagated; at or below the cap the call went
\* through propagateEQ, propagateInEQ and the DNF loop and returns the
\* solver's list.
C5_CapFallback ==
    /\ (pc = "done" /\ ~WithinCap) =>
            /\ ret = conditions
            /\ ~s.foreverFalse /\ s.eqList = <<>> /\ s.transitiveMatrix = <<>>
    /\ (pc = "done" /\ WithinCap) =>
            /\ ret = s.conditions
            /\ Len(s.eqList) = Cardinality(ColumnsOf(conditions))
            /\ Len(s.transitiveMatrix) = Cardinality(ColumnsOf(conditions))
    /\ (pc \notin {"solve", "done"}) => WithinCap

\* above the cap with a contradiction inside a conjunction given as one
\* condition: returned as given
C5_Witness ==
    /\ pc = "done" /\ ~WithinCap
    /\ HasConflict(Flat(conditions))
    /\ \E k \in 1..Len(conditions) : conditions[k].name = "and"
    /\ ret = conditions

\* the columns a bare column = column conjunct of f joins x to
Neighbours(f, x) ==
    {y \in Columns : \E k \in 1..Len(f) :
        \/ f[k] = Fn("eq", <<Col(x), Col(y)>>)
        \/ f[k] = Fn("eq", <<Col(y), Col(x)>>)}
RECURSIVE Reach(_, _)
Reach(f, S) ==
    LET N == S \cup UNION {Neighbours(f, x) : x \in S}
    IN  IF N = S THEN S ELSE Reach(f, N)
\* a chain of one or more bare column = column conjuncts of f joins x and y
Connected(f, x, y) == y \in Reach(f, Neighbours(f, x))

\* no column of y's chain has a binding in eqList
ChainUnbound(f, y) ==
    \A z \in {y} \cup Reach(f, Neighbours(f, y)) :
        s.eqList[s.colMapper[z] + 1] = Nil

\* every inequality y op k of f is in l for every column x chained to y
\* whose chain is unbound
Replicated(f, l) ==
    \A k \in 1..Len(f) :
        (/\ f[k].kind = "fn" /\ f[k].name \in {"lt", "gt", "le", "ge", "ne"}
         /\ f[k].args[1].kind = "col" /\ f[k].args[2].kind = "con")
        => LET y == f[k].args[1].name
           IN  ChainUnbound(f, y) =>
                 \A x \in Columns :
                    (x # y /\ Connected(f, x, y))
                    => Fn(f[k].name, <<Col(x), f[k].args[2]>>) \in Range(l)

\* C6 as stated (transitive inequality propagation): at or below the cap,
\* whenever x and y are chained, y op k is a conjunct and no column of the
\* chain is bound, the returned list holds x op k.
C6_AsStated ==
    (pc = "done" /\ WithinCap) => Replicated(Flat(conditions), ret)

\* C6 amended: the same, for the calls that found no contradiction (the
\* others return the one literal false).
C6_TransitiveInEq ==
    (pc = "done" /\ WithinCap /\ ~s.foreverFalse) =>
        Replicated(Flat(conditions), ret)

\* a < 2 derived from c < 2 over the chain a = b, b = c
C6_Witness ==
    /\ pc = "done" /\ WithinCap /\ ~s.foreverFalse
    /\ Fn("eq", <<A, B>>) \in Range(conditions)
    /\ Fn("eq", <<B, C>>) \in Range(conditions)
    /\ Fn("lt", <<C, Con(2)>>) \in Range(conditions)
    /\ Fn("lt", <<A, Con(2)>>) \in Range(ret)
    /\ Fn("lt", <<B, Con(2)>>) \in Range(ret)

\* the expressions a sibling disjunct is replaced by
Siblings == Branches

\* out is the rewriting of the OR condition c, disjunct by disjunct, and
\* disjunct j of it is also what comes out with any sibling replaced
Isolated(c, out) ==
    LET items == SplitDNFItems(c)
        outs == SplitDNFItems(out)
    IN  /\ Len(outs) = Len(items)
        /\ \A j \in 1..Len(items) :
            /\ (HasConflict(Flat(<<items[j]>>)) \/ HasNullFact(Flat(<<items[j]>>)))
                    => outs[j] = FalseLit
            /\ \A m \in 1..Len(items), e \in Siblings :
                    m # j =>
                    LET alts == SplitDNFItems(dnfRewrite(
                                    ComposeDNFCondition([items EXCEPT ![m] = e])))
                    IN  Len(alts) = Len(items) /\ alts[j] = outs[j]

\* C7 (disjunction isolation): the DNF step keeps the list's length and
\* every condition that is no OR, sets no forever-false, and rewrites each
\* OR condition disjunct by disjunct: disjunct j of the result is the same
\* whatever expression stands in place of a sibling, and a contradiction in
\* one branch makes that branch alone the literal false.
C7_DisjunctionIsolation ==
    [][pc = "dnf" =>
        /\ Len(s'.conditions) = Len(s.conditions)
        /\ s'.foreverFalse = s.foreverFalse
        /\ \A k \in 1..Len(s.conditions) :
            IF s.conditions[k].name = "or"
            THEN Isolated(s.conditions[k], s'.conditions[k])
            ELSE s'.conditions[k] = s.conditions[k]]_vars

\* (2 = a AND NULL = b) OR (a = b AND b != 1): the first branch collapses,
\* the second gains a != 1, the list keeps its other conditions
C7_Witness ==
    /\ pc = "done" /\ WithinCap /\ ~s.foreverFalse
    /\ \E k \in 1..Len(ret) :
        /\ ret[k].name = "or"
        /\ ret[k].args[1] = FalseLit
        /\ ret[k].args[2].name = "and"
        /\ Fn("ne", <<A, Con(1)>>) \in Range(ret[k].args[2].args)

\* the constants eqList holds for the columns of S, as a substitution
BoundColumns == {c \in DOMAIN s.colMapper : s.eqList[s.colMapper[c] + 1] # Nil}
SubstituteBound(e, S) ==
    LET ids == SortedIds({s.colMapper[c] : c \in S})
    IN  ColumnSubstitute(e, [k \in 1..Len(ids) |-> s.columns[ids[k] + 1]],
                            [k \in 1..Len(ids) |-> s.eqList[ids[k] + 1]])

\* e is a replica: column op constant with an inequality operator
IsInEqFact(e) ==
    /\ e.kind = "fn" /\ e.name \in {"lt", "gt", "le", "ge", "ne"}
    /\ e.args[1].kind = "col" /\ e.args[2].kind = "con"

\* C8 (output ordering): at or below the cap and with no contradiction, the
\* returned list starts with the m flattened input conjuncts in their order,
\* each as given, or with bound columns substituted, or (an OR condition) as
\* its branch-wise rewriting; everything after position m is a replicated
\* inequality.
C8_OutputOrdering ==
    (pc = "done" /\ WithinCap /\ ~s.foreverFalse) =>
        LET f == Flat(conditions)
            m == Len(f)
        IN  /\ Len(ret) >= m
            /\ \A k \in 1..m :
                \E S \in SUBSET BoundColumns :
                    ret[k] = dnfRewrite(SubstituteBound(f[k], S))
            /\ \A k \in (m + 1)..Len(ret) : IsInEqFact(ret[k])

\* replicas follow three input conjuncts that kept their places
C8_Witness ==
    /\ pc = "done" /\ WithinCap /\ ~s.foreverFalse
    /\ Len(Flat(conditions)) = 3
    /\ Len(ret) = 5
    /\ SubSeq(ret, 1, 3) = Flat(conditions)

InPropagateEQ == pc \in {"eqLoop", "propagateInEQ"}

\* C10 (fixpoint within the round cap): a round that yields a substitution
\* batch binds a column that had no binding; the rounds number at most the
\* bound columns, hence at most n; when propagateEQ has returned without
\* forever-false, by an empty batch or by the loop counter, no unvisited
\* condition is column = constant.
C10_Fixpoint ==
    /\ [][(pc = "eqLoop" /\ i' = i + 1) =>
            \E k \in 1..Len(s.eqList) : s.eqList[k] = Nil /\ s'.eqList[k] # Nil]_vars
    /\ [](InPropagateEQ =>
            /\ i <= Cardinality(BoundColumns)
            /\ Cardinality(BoundColumns) <= Cardinality(ColumnsOf(conditions)))
    /\ []((pc = "propagateInEQ" /\ ~s.foreverFalse) =>
            \A k \in 1..Len(s.conditions) :
                ~visited[k] => ~IsEqFact(s.conditions[k]))

\* propagateEQ left by the loop counter: as many rounds as the cap, each with
\* a batch, on an input with exactly that many columns
C10_Witness ==
    /\ pc = "propagateInEQ" /\ ~s.foreverFalse
    /\ i = MaxPropagateColsCnt
    /\ Cardinality(ColumnsOf(conditions)) = MaxPropagateColsCnt
    /\ \E k \in 1..Len(visited) : ~visited[k]

\* the columns occurring anywhere in an expression
ColsIn(e) == Range(ExtractColumns(e))

\* C11 (substitution invariant of equality propagation): inside propagateEQ
\* and at its return, with forever-false not set, no unvisited condition
\* holds a bound column at any depth, every visited condition is a
\* column = constant condition whose constant is the column's binding, and a
\* round leaves the list's length, the visited flags already set and every
\* condition visited before or during the round as they were.
C11_SubstitutionInvariant ==
    /\ []((InPropagateEQ /\ ~s.foreverFalse) =>
            \A k \in 1..Len(s.conditions) :
                IF visited[k]
                THEN /\ IsEqFact(s.conditions[k])
                     /\ s.eqList[s.colMapper[FactCol(s.conditions[k])] + 1]
                            = FactCon(s.conditions[k])
                ELSE ColsIn(s.conditions[k]) \cap BoundColumns = {})
    /\ [][(pc = "eqLoop" /\ ~s'.foreverFalse) =>
            /\ Len(s'.conditions) = Len(s.conditions)
            /\ \A k \in 1..Len(s.conditions) :
                    /\ visited[k] => visited'[k]
                    /\ visited'[k] => s'.conditions[k] = s.conditions[k]]_vars

\* a = 1 was picked and stays; (a + 1) = c became (1 + 1) = c
C11_Witness ==
    /\ InPropagateEQ /\ ~s.foreverFalse
    /\ \E j \in 1..Len(s.conditions), k \in 1..Len(s.conditions) :
        /\ visited[j] /\ s.conditions[j] = Fn("eq", <<A, Con(1)>>)
        /\ ~visited[k]
        /\ s.conditions[k] = Fn("eq", <<Fn("plus", <<Con(1), Con(1)>>), C>>)

\* C12 (forever-false is sticky and absorbing): once foreverFalse is set the
\* call is past the rounds of propagateEQ, the condition list is the one
\* literal false in every later state and that list is what the call
\* returns; no later step resets the flag, picks, binds or substitutes.
C12_ForeverFalseAbsorbing ==
    /\ [](s.foreverFalse =>
            /\ pc \in {"propagateInEQ", "dnf", "done"}
            /\ s.conditions = <<FalseLit>>
            /\ (pc = "done" => ret = <<FalseLit>>))
    /\ [][s.foreverFalse =>
            /\ s'.foreverFalse
            /\ s'.conditions = s.conditions
            /\ s'.eqList = s.eqList
            /\ visited' = visited /\ i' = i]_vars

\* the list held a column equality and an inequality to replicate beside
\* the contradiction: nothing of them is left
C12_Witness ==
    /\ pc = "done" /\ s.foreverFalse /\ ret = <<FalseLit>>
    /\ \E j \in 1..Len(conditions), k \in 1..Len(conditions) :
        /\ conditions[j] = Fn("eq", <<A, B>>)
        /\ IsInEqFact(conditions[k])

\* the column sequences of 2 to n + 1 elements, n the number of columns
Paths == UNION {[1..n -> Columns] : n \in 2..(Cardinality(Columns) + 1)}
\* a path of at least one edge leads from x to y, the edges being the bare
\* column = column conditions of f taken in both directions
PathExists(f, x, y) ==
    \E p \in Paths :
        /\ p[1] = x /\ p[Len(p)] = y
        /\ \A k \in 1..(Len(p) - 1) : p[k + 1] \in Neighbours(f, p[k])

\* C13 (closure correctness): the matrix propagateInEQ leaves is square over
\* the indexed columns and symmetric, and its entry (i, j) is true exactly
\* when a path of one or more edges leads from column i to column j, the
\* edges being the bare column = column conditions s.conditions held when
\* propagateInEQ started.
C13_ClosureCorrect ==
    [][pc = "propagateInEQ" =>
        LET n == Len(s.columns)
            m == s'.transitiveMatrix
        IN  /\ Len(m) = n
            /\ \A a \in 1..n :
                /\ Len(m[a]) = n
                /\ \A b \in 1..n :
                    /\ m[a][b] = m[b][a]
                    /\ m[a][b] = PathExists(s.conditions, s.columns[a],
                                            s.columns[b])]_vars

\* the chain a = b, b = c: all nine entries are true, the diagonal by the
\* paths there and back
C13_Witness ==
    /\ pc = "dnf"
    /\ Len(s.transitiveMatrix) = 3
    /\ \A a \in 1..3, b \in 1..3 : s.transitiveMatrix[a][b]
    /\ Cardinality({k \in 1..Len(s.conditions) :
            s.conditions[k].name = "eq" /\ s.conditions[k].args[1].kind = "col"
            /\ s.conditions[k].args[2].kind = "col"}) = 2

\* e is constant op column with an inequality operator
IsRevInEqFact(e) ==
    /\ e.kind = "fn" /\ e.name \in {"lt", "gt", "le", "ge", "ne"}
    /\ e.args[1].kind = "con" /\ e.args[2].kind = "col"
\* the column of an inequality of either shape
InEqCol(e) == IF e.args[1].kind = "col" THEN e.args[1].name ELSE e.args[2].name
\* the equivalence class of x under the column = column conditions of f
ClassOf(f, x) == {x} \cup {y \in Columns : PathExists(f, x, y)}

\* e is an inequality between a column and a constant: column op constant,
\* or in either operand order when both is true
IsSource(e, both) == IsInEqFact(e) \/ (both /\ IsRevInEqFact(e))

\* the sum of (class size - 1) over the sources of f from position k on
RECURSIVE ReplicaCount(_, _, _)
ReplicaCount(f, both, k) ==
    IF k > Len(f) THEN 0
    ELSE (IF IsSource(f[k], both)
          THEN Cardinality(ClassOf(f, InEqCol(f[k]))) - 1 ELSE 0)
         + ReplicaCount(f, both, k + 1)
\* the number of sources of f
NumSources(f, both) == Cardinality({k \in 1..Len(f) : IsSource(f[k], both)})
\* the largest equivalence class
MaxClass(f) ==
    CHOOSE n \in 1..Cardinality(Columns) :
        /\ \E x \in Columns : Cardinality(ClassOf(f, x)) = n
        /\ \A x \in Columns : Cardinality(ClassOf(f, x)) <= n

\* propagateInEQ keeps the conditions it found as a prefix and appends as
\* many conditions as the sources of that prefix account for
AppendedAsCounted(both) ==
    LET n == Len(s.conditions)
        appended == Len(s'.conditions) - n
    IN  /\ appended >= 0
        /\ SubSeq(s'.conditions, 1, n) = s.conditions
        /\ appended = ReplicaCount(s.conditions, both, 1)
        /\ appended <= NumSources(s.conditions, both) * MaxClass(s.conditions)

Reorderings(l) ==
    {[k \in 1..Len(l) |-> l[q[k]]] : q \in Permutations(1..Len(l))}

\* C15 (detection order independence): at or below the cap, the step that
\* returns gives the one literal false exactly when PropagateConstant does
\* so on every reordering of the input list.
C15_OrderIndependent ==
    [][(pc # "done" /\ pc' = "done" /\ WithinCap) =>
        \A l \in Reorderings(conditions) :
            (PropagateConstant(l) = <<FalseLit>>) <=> (ret' = <<FalseLit>>)]_vars

\* a list with a NULL equality before a conflicting pair: some reordering
\* meets the conflict first, some the NULL equality in another position
C15_Witness ==
    /\ pc = "done" /\ WithinCap /\ ret = <<FalseLit>>
    /\ Len(conditions) = 3
    /\ IsEqFact(conditions[1]) /\ FactCon(conditions[1]).isNull
    /\ HasConflict(<<conditions[2], conditions[3]>>)

\* the columns the next step hands to getColID: those of the column =
\* constant, column = column and column-inequality-constant conditions
LookedUp(e) ==
    IF validPropagateCond(e, eqFuncNameMap).col # Nil
       \/ validPropagateCond(e, inEqFuncNameMap).col # Nil
       \/ (e.kind = "fn" /\ e.name = "eq" /\ e.args[1].kind = "col"
           /\ e.args[2].kind = "col")
    THEN ColsIn(e) ELSE {}

\* C16 (lookups on inserted columns): in every state of a call past the cap
\* test, every column occurring in s.conditions, so every column a later
\* step hands to getColID, is a key of colMapper; its id is the position of
\* that column in columns, never the default 0 of a missing key.
C16_LookupsInserted ==
    (pc # "solve" /\ WithinCap) =>
        \A k \in 1..Len(s.conditions) :
            /\ ColsIn(s.conditions[k]) \subseteq DOMAIN s.colMapper
            /\ \A c \in LookedUp(s.conditions[k]) :
                    s.columns[getColID(s, c) + 1] = c

\* after a substitution and a replication the list still has conditions
\* whose columns are looked up, one of them with an id other than 0
C16_Witness ==
    /\ pc = "dnf" /\ WithinCap /\ ~s.foreverFalse
    /\ BoundColumns # {}
    /\ Len(s.conditions) > Len(Flat(conditions))
    /\ \E k \in 1..Len(s.conditions) :
        \E c \in LookedUp(s.conditions[k]) : getColID(s, c) = 2

\* the column occurrences of the input, in the order solve inserts them
Occurrences == Concat([k \in 1..Len(conditions) |-> ExtractColumns(conditions[k])])

\* C17 (dense and unique column ids): once solve has inserted the columns,
\* colMapper maps the n distinct columns of the input one-to-one onto
\* 0..n-1, columns has n elements and columns[colMapper[c]] is c; inserting
\* a column already seen changes nothing and an unseen one gets id n;
\* eqList and every row of transitiveMatrix, once allocated, have n
\* elements.
C17_DenseUniqueIds ==
    (pc # "solve") =>
        LET n == Cardinality(ColumnsOf(conditions))
        IN  /\ DOMAIN s.colMapper = ColumnsOf(conditions)
            /\ {s.colMapper[c] : c \in DOMAIN s.colMapper} = 0..(n - 1)
            /\ \A c \in DOMAIN s.colMapper, d \in DOMAIN s.colMapper :
                    s.colMapper[c] = s.colMapper[d] => c = d
            /\ Len(s.columns) = n
            /\ \A c \in DOMAIN s.colMapper : s.columns[s.colMapper[c] + 1] = c
            /\ \A c \in Columns :
                    IF c \in DOMAIN s.colMapper
                    THEN insertCol(s, c) = s
                    ELSE /\ insertCol(s, c).colMapper[c] = n
                         /\ insertCol(s, c).columns = Append(s.columns, c)
            /\ (pc \in {"eqLoop", "propagateInEQ", "dnf"}) => Len(s.eqList) = n
            /\ (pc = "dnf") =>
                    /\ Len(s.transitiveMatrix) = n
                    /\ \A a \in 1..n : Len(s.transitiveMatrix[a]) = n

\* three columns, each occurring more than once, first seen in an order
\* that is not the alphabetical one
C17_Witness ==
    /\ pc = "dnf"
    /\ Len(s.columns) = 3 /\ s.columns[1] # "a"
    /\ Len(Occurrences) >= 5

\* the number of nodes of an expression
RECURSIVE Size(_), SizeFrom(_, _)
Size(e) == 1 + SizeFrom(e.args, 1)
SizeFrom(as, k) == IF k > Len(as) THEN 0 ELSE Size(as[k]) + SizeFrom(as, k + 1)

\* the conditions the DNF loop of the call on conds goes through: none when
\* the call returns at the cap test
BeforeDNF(conds) ==
    LET s0 == solveCollect(NewSolver, conds)
    IN  IF overCap(s0) THEN <<>> ELSE propagateInEQ(propagateEQ(s0)).conditions

\* every call the DNF loop makes for an OR condition is on a disjunct
\* smaller than that condition, and so on down the calls it makes in turn
RECURSIVE Descends(_)
Descends(cond) ==
    (cond.kind = "fn" /\ cond.name = "or") =>
        LET items == SplitDNFItems(cond)
        IN  \A j \in 1..Len(items) :
                /\ Size(items[j]) < Size(cond)
                /\ \A c \in Range(BeforeDNF(<<items[j]>>)) :
                        Size(c) <= Size(items[j]) /\ Descends(c)

\* C18 (termination): every call reaches its return and stays there; the
\* loop counter of propagateEQ never exceeds MaxPropagateColsCnt; the
\* replication scan appends at most (number of columns - 1) conditions for
\* each condition of the snapshot; every recursive call of the DNF loop is
\* on an expression strictly smaller than the OR condition it came from.
C18_Termination ==
    /\ <>[](pc = "done")
    /\ [](i <= MaxPropagateColsCnt)
    /\ [][pc = "propagateInEQ" =>
            Len(s'.conditions) <= Len(s.conditions) * Len(s.columns)]_vars
    /\ [](pc = "dnf" => \A k \in 1..Len(s.conditions) : Descends(s.conditions[k]))

\* the call returned after a round that substituted and after rewriting an
\* OR condition that has an OR condition inside a branch
C18_Witness ==
    /\ pc = "done" /\ WithinCap
    /\ i >= 1
    /\ \E k \in 1..Len(conditions) :
        /\ conditions[k].name = "or"
        /\ \E j \in 1..Len(SplitDNFItems(conditions[k])) :
            \E c \in Range(SplitCNFItems(SplitDNFItems(conditions[k])[j])) :
                c.name = "or"

\* the solver of a call on conds when it reaches the DNF loop
SolverBeforeDNF(conds) ==
    The({propagateInEQ(s1) :
         s1 \in {propagateEQ(s0) : s0 \in {solveCollect(NewSolver, conds)}}})
\* the bindings of a solver: column and constant
Bindings(sv) ==
    {<<c, sv.eqList[sv.colMapper[c] + 1]>> :
        c \in {d \in DOMAIN sv.colMapper : sv.eqList[sv.colMapper[d] + 1] # Nil}}
\* the OR conditions put in place of an OR condition of the input
OrAlternatives == {e \in OrConds : ColsIn(e) \subseteq ColumnsOf(conditions)}

\* C19 (facts flow into a disjunction, never out of it): propagateEQ and
\* propagateInEQ hand to the DNF loop every top-level OR condition as the
\* input's with every bound column replaced by its constant in every
\* branch; and with any other OR condition in its place the call reaches the
\* DNF loop with the same forever-false flag, the same bindings, the same
\* conditions at the other positions of the input and the same appended
\* conditions.
C19_DisjunctionFrame ==
    [][pc = "propagateInEQ" =>
        LET f == Flat(conditions)
            m == Len(f)
        IN  \A k \in 1..m :
                (f[k].name = "or") =>
                /\ ~s'.foreverFalse =>
                        /\ s'.conditions[k] = SubstituteBound(f[k], BoundColumns)
                        /\ ColsIn(s'.conditions[k]) \cap BoundColumns = {}
                /\ \A e \in OrAlternatives :
                        LET alt == SolverBeforeDNF([f EXCEPT ![k] = e])
                        IN  /\ alt.foreverFalse = s'.foreverFalse
                            /\ Bindings(alt) = Bindings(s')
                            /\ Len(alt.conditions) = Len(s'.conditions)
                            /\ \A j \in 1..Len(s'.conditions) :
                                    (j # k /\ j <= m) =>
                                        alt.conditions[j] = s'.conditions[j]
                            /\ Range(SubSeq(alt.conditions, m + 1, Len(alt.conditions)))
                                = Range(SubSeq(s'.conditions, m + 1,
                                               Len(s'.conditions)))]_vars

\* a was bound at the top level and replaced inside the OR condition, one
\* branch of which now holds an equality between a constant and a column
\* that has no binding at the top level
C19_Witness ==
    /\ pc = "dnf" /\ ~s.foreverFalse
    /\ BoundColumns # {}
    /\ \E k \in 1..Len(Flat(conditions)) :
        /\ s.conditions[k].name = "or"
        /\ s.conditions[k] # Flat(conditions)[k]
        /\ \E j \in 1..Len(s.conditions[k].args) :
            \E c \in Range(SplitCNFItems(s.conditions[k].args[j])) :
                IsEqFact(c) /\ FactCol(c) \notin BoundColumns

====
